---- MODULE Spec2Model ----
(***************************************************************************)
(* Model of common/python/grafana/query.py: the Prometheus query           *)
(* expression builder (format_params, the vector classes, the function     *)
(* wrappers and the aggregations).                                         *)
(*                                                                         *)
(* Python strings are TLA+ strings; the objects a caller has constructed   *)
(* live in `heap` (a reference is an index into it); `last` records the    *)
(* last call:                                                              *)
(* its name, the arguments as passed (an omitted argument is absent from   *)
(* the record), and what it returned or raised; `pc` is where the caller   *)
(* stands: "building" until an exception of this module reaches it.        *)
(***************************************************************************)
EXTENDS Integers, Sequences, FiniteSets, TLC

VARIABLES heap, last, pc

vars == <<heap, last, pc>>

(***************************************************************************)
(* Bounds of the model.                                                    *)
(***************************************************************************)
\* objects a run constructs
MaxNodes == 3
\* labels in a selector mapping handed to format_params
MaxLabels == 2

(***************************************************************************)
(* Python string primitives.                                               *)
(***************************************************************************)
\* s.startswith(p)
StartsWith(s, p) == Len(s) >= Len(p) /\ SubSeq(s, 1, Len(p)) = p

\* s[n:]
SliceFrom(s, n) == IF n >= Len(s) THEN "" ELSE SubSeq(s, n + 1, Len(s))

\* sep.join(parts), parts a list of strings
RECURSIVE Join(_, _)
Join(sep, parts) ==
    IF Len(parts) = 0 THEN ""
    ELSE IF Len(parts) = 1 THEN parts[1]
    ELSE parts[1] \o sep \o Join(sep, Tail(parts))

\* repr() of a list of plain strings, as an f-string interpolates it:
\* ['rate', 'irate']
ListRepr(names) ==
    "[" \o Join(", ", [i \in 1..Len(names) |-> "'" \o names[i] \o "'"]) \o "]"

(***************************************************************************)
(* Call outcomes.                                                          *)
(***************************************************************************)
NoArgs == [none |-> TRUE]

NoCall == [op |-> "none", args |-> NoArgs, kind |-> "none", msg |-> "", ref |-> 0, value |-> ""]

\* a call that returned the string `value`
Returned(op, args, value) ==
    [op |-> op, args |-> args, kind |-> "ok", msg |-> "", ref |-> 0, value |-> value]

\* a constructor call that returned the new object heap[ref]
Constructed(op, args, ref) ==
    [op |-> op, args |-> args, kind |-> "ok", msg |-> "", ref |-> ref, value |-> ""]

\* a call that raised exception class `kind` with message `msg`
Raised(op, args, kind, msg) ==
    [op |-> op, args |-> args, kind |-> kind, msg |-> msg, ref |-> 0, value |-> ""]

\* the value of parameter `name`: the argument passed, else the default
Arg(args, name, default) == IF name \in DOMAIN args THEN args[name] ELSE default

(***************************************************************************)
(* format_params (query.py:7-24).                                          *)
(***************************************************************************)
\* the parameters the signature of format_params declares
format_params_signature == {"params"}

\* expression with the "!" test ahead of the "!~" test
expression_swapped(k, v) ==
    IF StartsWith(v, "~") THEN k \o "=~\"" \o SliceFrom(v, 1) \o "\""
    ELSE IF StartsWith(v, "!") THEN k \o "!=\"" \o SliceFrom(v, 1) \o "\""
    ELSE IF StartsWith(v, "!~") THEN k \o "!~\"" \o SliceFrom(v, 2) \o "\""
    ELSE k \o "=\"" \o v \o "\""

\* the clause one (k, v) item of the mapping appends to expression_list
\* (query.py:16-23)
expression(k, v) ==
    IF StartsWith(v, "~") THEN k \o "=~\"" \o SliceFrom(v, 1) \o "\""
    ELSE IF StartsWith(v, "!~") THEN k \o "!~\"" \o SliceFrom(v, 2) \o "\""
    ELSE IF StartsWith(v, "!") THEN k \o "!=\"" \o SliceFrom(v, 1) \o "\""
    ELSE k \o "=\"" \o v \o "\""

\* expression_list after the loop over params.items(); params is the
\* mapping as its insertion-ordered sequence of <<key, value>> items
expression_list(params) ==
    [i \in 1..Len(params) |-> expression(params[i][1], params[i][2])]

format_params(params) == "{" \o Join(", ", expression_list(params)) \o "}"

\* The call format_params(params, **keywords): Python binds the arguments
\* to the signature first and raises TypeError for a keyword it lacks.
format_params_call(params, keywords) ==
    LET args == [params |-> params, keywords |-> keywords]
        unexpected == keywords \ format_params_signature
    IN  IF unexpected # {}
        THEN Raised("format_params", args, "TypeError",
                    "format_params() got an unexpected keyword argument '"
                        \o (CHOOSE n \in unexpected : TRUE) \o "'")
        ELSE Returned("format_params", args, format_params(params))

\* a call about to be made, with its arguments
Pending(op, args) ==
    [op |-> op, args |-> args, kind |-> "pending", msg |-> "", ref |-> 0, value |-> ""]

\* where the caller stands after a call: an exception reaches the caller,
\* which builds nothing further (the dashboard modules have no handler, and
\* a test's assertRaises block ends with the failing call)
After(outcome) == IF outcome.kind \in {"ok", "pending"} THEN "building" ELSE "raised"

CallFormatParams ==
    /\ pc = "building"
    /\ last.op = "format_params"
    /\ last.kind = "pending"
    /\ last' = format_params_call(last.args.params, last.args.keywords)
    /\ pc' = After(last')
    /\ UNCHANGED heap

(***************************************************************************)
(* Inputs of the format_params specification.                              *)
(***************************************************************************)
LabelNames == {"a", "c", "e"}

LabelValues == {"b", "d", "~b", "!b", "!~b", "!", "~", "!~", "", "b\"c"}

\* insertion-ordered mappings: sequences of items with distinct keys
Mappings ==
    LET Items == LabelNames \X LabelValues
    IN  { m \in UNION { [1..n -> Items] : n \in 0..MaxLabels } :
            \A i, j \in 1..Len(m) : i # j => m[i][1] # m[j][1] }

\* the names of the keyword arguments a caller adds to the call: none, or
\* the opt-out the tests pass (exclude_default=True)
KeywordSets == { {}, {"exclude_default"} }

\* the caller picks a mapping and the keywords, then makes the call
InitFormat ==
    /\ heap = <<>>
    /\ pc = "building"
    /\ \E params \in Mappings, keywords \in KeywordSets :
            last = Pending("format_params", [params |-> params, keywords |-> keywords])

FormatNext == CallFormatParams

SpecFormat == InitFormat /\ [][FormatNext]_vars

(***************************************************************************)
(* Python numbers, as far as HistogramQuantile needs them: an int or a     *)
(* float, held in tenths (0.2 is [type |-> "float", tenths |-> 2]).        *)
(***************************************************************************)
PyInt(n) == [type |-> "int", tenths |-> 10 * n]

PyFloat(tenths) == [type |-> "float", tenths |-> tenths]

\* str() of a non-negative int
RECURSIVE NatStr(_)
NatStr(n) ==
    LET digit == <<"0", "1", "2", "3", "4", "5", "6", "7", "8", "9">>[(n % 10) + 1]
    IN  IF n < 10 THEN digit ELSE NatStr(n \div 10) \o digit

\* str() of a number, as an f-string interpolates it: 2, 0.2, 1.0, -0.5
NumStr(q) ==
    LET a == IF q.tenths < 0 THEN 0 - q.tenths ELSE q.tenths
        sign == IF q.tenths < 0 THEN "-" ELSE ""
    IN  IF q.type = "int" THEN sign \o NatStr(a \div 10)
        ELSE sign \o NatStr(a \div 10) \o "." \o NatStr(a % 10)

(***************************************************************************)
(* The class hierarchy (query.py:27, 37, 48, 62, 78, 89, 102, 112,         *)
(* 141-185) and isinstance.                                                *)
(***************************************************************************)
FunctionClasses == {"HistogramQuantile", "Rate", "Increase", "Delta", "Scalar"}

NamedAggregations == {"Count", "Sum", "Max", "Min", "Avg"}

AggregationClasses == {"_Aggregation"} \cup NamedAggregations

\* the class statements, had the function classes no base class
Bases_functions_plain(cls) ==
    IF cls = "_Aggregation" THEN {"InstantVector"}
    ELSE IF cls \in NamedAggregations THEN {"_Aggregation"}
    ELSE {}

\* the class statements, had RangeVector been derived from InstantVector
Bases_range_instant(cls) ==
    IF cls \in FunctionClasses \cup {"_Aggregation", "RangeVector"} THEN {"InstantVector"}
    ELSE IF cls \in NamedAggregations THEN {"_Aggregation"}
    ELSE {}

\* the base classes a class statement names
Bases(cls) ==
    IF cls \in FunctionClasses \cup {"_Aggregation"} THEN {"InstantVector"}
    ELSE IF cls \in NamedAggregations THEN {"_Aggregation"}
    ELSE {}

\* the class and everything it inherits from
RECURSIVE Mro(_)
Mro(cls) == {cls} \cup UNION { Mro(b) : b \in Bases(cls) }

\* isinstance(vector, cls); vector is a reference
isinstance(vector, cls) ==
    /\ vector \in 1..Len(heap)
    /\ cls \in Mro(heap[vector].cls)

(***************************************************************************)
(* Constructors: each __init__ as the object it initialises or the         *)
(* exception it raises.                                                    *)
(***************************************************************************)
Object(obj) == [kind |-> "ok", obj |-> obj, msg |-> ""]

Raise(exception, msg) == [kind |-> exception, obj |-> NoArgs, msg |-> msg]

\* InstantVector.__init__ (query.py:29-31)
InstantVector_init(metric, params) ==
    Object([cls |-> "InstantVector", metric |-> metric, params |-> params])

\* RangeVector.__init__ dropping the caller's window for the default
RangeVector_init_fixedwindow(metric, params, lookback_window) ==
    Object([cls |-> "RangeVector", metric |-> metric, params |-> params,
            lookback_window |-> "2m"])

\* RangeVector.__init__ (query.py:39-42)
RangeVector_init(metric, params, lookback_window) ==
    Object([cls |-> "RangeVector", metric |-> metric, params |-> params,
            lookback_window |-> lookback_window])

\* HistogramQuantile.__init__ with the upper bound excluded
HistogramQuantile_init_open(quantile, vector) ==
    IF quantile.tenths < 0 \/ quantile.tenths >= 10
    THEN Raise("ValueError", "quantile should be between 0 and 1")
    ELSE IF ~isinstance(vector, "InstantVector")
    THEN Raise("TypeError", "invalid vector type")
    ELSE Object([cls |-> "HistogramQuantile", quantile |-> quantile, vector |-> vector])

\* HistogramQuantile.__init__ raising TypeError for the quantile
HistogramQuantile_init_typeerror(quantile, vector) ==
    IF quantile.tenths < 0 \/ quantile.tenths > 10
    THEN Raise("TypeError", "quantile should be between 0 and 1")
    ELSE IF ~isinstance(vector, "InstantVector")
    THEN Raise("TypeError", "invalid vector type")
    ELSE Object([cls |-> "HistogramQuantile", quantile |-> quantile, vector |-> vector])

\* HistogramQuantile.__init__ (query.py:50-56)
HistogramQuantile_init(quantile, vector) ==
    IF quantile.tenths < 0 \/ quantile.tenths > 10
    THEN Raise("ValueError", "quantile should be between 0 and 1")
    ELSE IF ~isinstance(vector, "InstantVector")
    THEN Raise("TypeError", "invalid vector type")
    ELSE Object([cls |-> "HistogramQuantile", quantile |-> quantile, vector |-> vector])

\* Rate.VALID_FUNCTIONS (query.py:64)
VALID_FUNCTIONS == <<"rate", "irate">>

\* x in list
InList(x, list) == \E i \in 1..Len(list) : list[i] = x

\* Rate.__init__ without the check of the function name
Rate_init_anyname(vector, rate_function) ==
    IF ~isinstance(vector, "RangeVector")
    THEN Raise("TypeError", "invalid vector type")
    ELSE Object([cls |-> "Rate", rate_function |-> rate_function, vector |-> vector])

\* Rate.__init__ with its two checks in the other order
Rate_init_namefirst(vector, rate_function) ==
    IF ~InList(rate_function, VALID_FUNCTIONS)
    THEN Raise("ValueError",
               "Rate function should be one of: " \o ListRepr(VALID_FUNCTIONS))
    ELSE IF ~isinstance(vector, "RangeVector")
    THEN Raise("TypeError", "invalid vector type")
    ELSE Object([cls |-> "Rate", rate_function |-> rate_function, vector |-> vector])

\* Rate.__init__ (query.py:66-72)
Rate_init(vector, rate_function) ==
    IF ~isinstance(vector, "RangeVector")
    THEN Raise("TypeError", "invalid vector type")
    ELSE IF ~InList(rate_function, VALID_FUNCTIONS)
    THEN Raise("ValueError",
               "Rate function should be one of: " \o ListRepr(VALID_FUNCTIONS))
    ELSE Object([cls |-> "Rate", rate_function |-> rate_function, vector |-> vector])

\* Increase.__init__ checking for the wrong vector class
Increase_init_instant(vector) ==
    IF ~isinstance(vector, "InstantVector")
    THEN Raise("TypeError", "invalid vector type")
    ELSE Object([cls |-> "Increase", vector |-> vector])

\* Increase.__init__ (query.py:80-83)
Increase_init(vector) ==
    IF ~isinstance(vector, "RangeVector")
    THEN Raise("TypeError", "invalid vector type")
    ELSE Object([cls |-> "Increase", vector |-> vector])

\* Delta.__init__ (query.py:94-97)
Delta_init(vector) ==
    IF ~isinstance(vector, "RangeVector")
    THEN Raise("TypeError", "invalid vector type")
    ELSE Object([cls |-> "Delta", vector |-> vector])

\* Scalar.__init__ without the check of the vector
Scalar_init_unchecked(vector) == Object([cls |-> "Scalar", vector |-> vector])

\* Scalar.__init__ (query.py:104-107)
Scalar_init(vector) ==
    IF ~isinstance(vector, "InstantVector")
    THEN Raise("TypeError", "invalid vector type")
    ELSE Object([cls |-> "Scalar", vector |-> vector])

\* _Aggregation.VALID_OPERATORS (query.py:114)
VALID_OPERATORS == <<"sum", "min", "max", "avg", "count">>

\* by and without of a call: the list passed, or None when the argument is
\* omitted.  `groups` is the record of the two arguments that were passed.
IsNone(groups, name) == name \notin DOMAIN groups

\* truth value of `by` / `without`: a non-empty list
Truthy(groups, name) == name \in DOMAIN groups /\ Len(groups[name]) > 0

\* self.dimension with the labels joined by "," alone
dimension_nospace(groups) ==
    LET d0 == ""
        d1 == IF Truthy(groups, "by")
              THEN " by (" \o Join(",", groups.by) \o ")" ELSE d0
    IN  IF Truthy(groups, "without")
        THEN " without (" \o Join(",", groups.without) \o ")" ELSE d1

\* self.dimension after query.py:129-133
dimension(groups) ==
    LET d0 == ""
        d1 == IF Truthy(groups, "by")
              THEN " by (" \o Join(", ", groups.by) \o ")" ELSE d0
    IN  IF Truthy(groups, "without")
        THEN " without (" \o Join(", ", groups.without) \o ")" ELSE d1

\* _Aggregation.__init__ without the check that by and without exclude
\* each other
Aggregation_init_noexclusive(cls, operator, vector, groups) ==
    IF ~isinstance(vector, "InstantVector")
    THEN Raise("TypeError", "invalid vector type")
    ELSE IF ~InList(operator, VALID_OPERATORS)
    THEN Raise("ValueError",
               "operator should be one of: " \o ListRepr(VALID_OPERATORS))
    ELSE Object([cls |-> cls, dimension |-> dimension(groups),
                 vector |-> vector, operator |-> operator])

\* _Aggregation.__init__ without line 129: the dimension attribute is set
\* only by a non-empty by or without list
Aggregation_init_lazydimension(cls, operator, vector, groups) ==
    IF ~isinstance(vector, "InstantVector")
    THEN Raise("TypeError", "invalid vector type")
    ELSE IF ~IsNone(groups, "by") /\ ~IsNone(groups, "without")
    THEN Raise("ValueError", "clause should be by or without, not both")
    ELSE IF ~InList(operator, VALID_OPERATORS)
    THEN Raise("ValueError",
               "operator should be one of: " \o ListRepr(VALID_OPERATORS))
    ELSE IF Truthy(groups, "by") \/ Truthy(groups, "without")
    THEN Object([cls |-> cls, dimension |-> dimension(groups),
                 vector |-> vector, operator |-> operator])
    ELSE Object([cls |-> cls, vector |-> vector, operator |-> operator])

\* _Aggregation.__init__ (query.py:116-135) run on a new object of class cls
Aggregation_init(cls, operator, vector, groups) ==
    IF ~isinstance(vector, "InstantVector")
    THEN Raise("TypeError", "invalid vector type")
    ELSE IF ~IsNone(groups, "by") /\ ~IsNone(groups, "without")
    THEN Raise("ValueError", "clause should be by or without, not both")
    ELSE IF ~InList(operator, VALID_OPERATORS)
    THEN Raise("ValueError",
               "operator should be one of: " \o ListRepr(VALID_OPERATORS))
    ELSE Object([cls |-> cls, dimension |-> dimension(groups),
                 vector |-> vector, operator |-> operator])

\* NamedOperator with Avg handing over a tag that is not in the list
NamedOperator_mean(cls) ==
    CASE cls = "Count" -> "count"
      [] cls = "Sum" -> "sum"
      [] cls = "Max" -> "max"
      [] cls = "Min" -> "min"
      [] cls = "Avg" -> "mean"

\* the operator each named aggregation hands to super().__init__
\* (query.py:149, 160, 171, 182, 193)
NamedOperator(cls) ==
    CASE cls = "Count" -> "count"
      [] cls = "Sum" -> "sum"
      [] cls = "Max" -> "max"
      [] cls = "Min" -> "min"
      [] cls = "Avg" -> "avg"

\* Count/Sum/Max/Min/Avg.__init__ (query.py:143-193)
Named_init(cls, vector, groups) ==
    Aggregation_init(cls, NamedOperator(cls), vector, groups)

(***************************************************************************)
(* __str__ (query.py:33, 44, 58, 74, 85, 99, 109, 137).                    *)
(***************************************************************************)
RECURSIVE str(_)

\* __str__ with the arguments of histogram_quantile in the other order
str_vectorfirst(self) ==
    LET o == heap[self]
    IN  CASE o.cls = "InstantVector" -> o.metric \o o.params
          [] o.cls = "RangeVector" ->
                o.metric \o o.params \o "[" \o o.lookback_window \o "]"
          [] o.cls = "HistogramQuantile" ->
                "histogram_quantile(" \o str(o.vector) \o ", " \o NumStr(o.quantile) \o ")"
          [] o.cls \in {"Increase", "Delta", "Scalar"} ->
                (CHOOSE f \in {"increase", "delta", "scalar"} :
                    SliceFrom(f, 1) = SliceFrom(o.cls, 1)) \o "(" \o str(o.vector) \o ")"
          [] o.cls = "Rate" -> o.rate_function \o "(" \o str(o.vector) \o ")"
          [] o.cls \in AggregationClasses ->
                o.operator \o "(" \o str(o.vector) \o ")" \o o.dimension

str(self) ==
    LET o == heap[self]
    IN  CASE o.cls = "InstantVector" -> o.metric \o o.params
          [] o.cls = "RangeVector" ->
                o.metric \o o.params \o "[" \o o.lookback_window \o "]"
          [] o.cls = "HistogramQuantile" ->
                "histogram_quantile(" \o NumStr(o.quantile) \o ", " \o str(o.vector) \o ")"
          [] o.cls = "Rate" -> o.rate_function \o "(" \o str(o.vector) \o ")"
          [] o.cls = "Increase" -> "increase(" \o str(o.vector) \o ")"
          [] o.cls = "Delta" -> "delta(" \o str(o.vector) \o ")"
          [] o.cls = "Scalar" -> "scalar(" \o str(o.vector) \o ")"
          [] o.cls \in AggregationClasses ->
                o.operator \o "(" \o str(o.vector) \o ")" \o o.dimension

(***************************************************************************)
(* The calls a client makes.                                               *)
(***************************************************************************)
\* A constructor call whose __init__ also assigns to the vector it wraps
Construct_retagging(op, args, r) ==
    /\ pc = "building"
    /\ Len(heap) < MaxNodes
    /\ pc' = After(r)
    /\ IF r.kind = "ok"
       THEN /\ heap' = Append(IF "vector" \in DOMAIN r.obj
                              THEN [heap EXCEPT ![r.obj.vector].cls = "InstantVector"]
                              ELSE heap,
                              r.obj)
            /\ last' = Constructed(op, args, Len(heap) + 1)
       ELSE /\ heap' = heap
            /\ last' = Raised(op, args, r.kind, r.msg)

\* A constructor call that leaves the object behind when __init__ raises
Construct_leaking(op, args, r) ==
    /\ pc = "building"
    /\ Len(heap) < MaxNodes
    /\ pc' = After(r)
    /\ IF r.kind = "ok"
       THEN /\ heap' = Append(heap, r.obj)
            /\ last' = Constructed(op, args, Len(heap) + 1)
       ELSE /\ heap' = Append(heap, [cls |-> op])
            /\ last' = Raised(op, args, r.kind, r.msg)

\* A constructor call whose __init__ makes the wrapper it is given wrap the
\* new object in turn
Construct_backlink(op, args, r) ==
    /\ pc = "building"
    /\ Len(heap) < MaxNodes
    /\ pc' = After(r)
    /\ IF r.kind = "ok"
       THEN /\ heap' = Append(IF "vector" \in DOMAIN r.obj
                              THEN [heap EXCEPT ![r.obj.vector] =
                                        IF "vector" \in DOMAIN @
                                        THEN [@ EXCEPT !.vector = Len(heap) + 1]
                                        ELSE @]
                              ELSE heap,
                              r.obj)
            /\ last' = Constructed(op, args, Len(heap) + 1)
       ELSE /\ heap' = heap
            /\ last' = Raised(op, args, r.kind, r.msg)

\* A constructor call: the new object joins the heap, or the exception
\* reaches the caller and nothing else happens.
Construct(op, args, r) ==
    /\ pc = "building"
    /\ Len(heap) < MaxNodes
    /\ pc' = After(r)
    /\ IF r.kind = "ok"
       THEN /\ heap' = Append(heap, r.obj)
            /\ last' = Constructed(op, args, Len(heap) + 1)
       ELSE /\ heap' = heap
            /\ last' = Raised(op, args, r.kind, r.msg)

NewInstantVector(args) ==
    Construct("InstantVector", args,
              InstantVector_init(args.metric, Arg(args, "params", "")))

NewRangeVector(args) ==
    Construct("RangeVector", args,
              RangeVector_init(args.metric, Arg(args, "params", ""),
                               Arg(args, "lookback_window", "2m")))

NewHistogramQuantile(args) ==
    Construct("HistogramQuantile", args,
              HistogramQuantile_init(args.quantile, args.vector))

NewRate(args) ==
    Construct("Rate", args,
              Rate_init(args.vector, Arg(args, "rate_function", "rate")))

NewIncrease(args) == Construct("Increase", args, Increase_init(args.vector))

NewDelta(args) == Construct("Delta", args, Delta_init(args.vector))

NewScalar(args) == Construct("Scalar", args, Scalar_init(args.vector))

NewAggregation(args) ==
    Construct("_Aggregation", args,
              Aggregation_init("_Aggregation", args.operator, args.vector, args.groups))

NewCount(args) == Construct("Count", args, Named_init("Count", args.vector, args.groups))

NewSum(args) == Construct("Sum", args, Named_init("Sum", args.vector, args.groups))

NewMax(args) == Construct("Max", args, Named_init("Max", args.vector, args.groups))

NewMin(args) == Construct("Min", args, Named_init("Min", args.vector, args.groups))

NewAvg(args) == Construct("Avg", args, Named_init("Avg", args.vector, args.groups))

\* __str__ appending to the dimension it has just printed
Str_appending(self) ==
    /\ last' = Returned("str", [self |-> self], str(self))
    /\ heap' = [heap EXCEPT ![self] =
                    IF "dimension" \in DOMAIN @
                    THEN [@ EXCEPT !.dimension = @ \o @]
                    ELSE @]
    /\ UNCHANGED pc

\* the attributes the __str__ of a class reads
Attributes(cls) ==
    CASE cls = "InstantVector" -> {"metric", "params"}
      [] cls = "RangeVector" -> {"metric", "params", "lookback_window"}
      [] cls = "HistogramQuantile" -> {"quantile", "vector"}
      [] cls = "Rate" -> {"rate_function", "vector"}
      [] cls \in {"Increase", "Delta", "Scalar"} -> {"vector"}
      [] cls \in AggregationClasses -> {"operator", "vector", "dimension"}

\* __str__ finds every attribute it reads, on the object and below it
RECURSIVE Renderable(_)
Renderable(self) ==
    /\ Attributes(heap[self].cls) \subseteq DOMAIN heap[self]
    /\ "vector" \in Attributes(heap[self].cls) =>
            /\ heap[self].vector \in 1..Len(heap)
            /\ Renderable(heap[self].vector)

\* str(heap[self]): the objects built stay printable, also by the handler
\* of an exception; reading an attribute that was never set raises
Str(self) ==
    /\ last' = IF Renderable(self)
               THEN Returned("str", [self |-> self], str(self))
               ELSE Raised("str", [self |-> self], "AttributeError",
                           "object has no attribute")
    /\ pc' = IF Renderable(self) THEN pc ELSE "raised"
    /\ UNCHANGED heap

(***************************************************************************)
(* Inputs of the builder specification.                                    *)
(***************************************************************************)
Metrics == {"x"}

Selectors == {"{}"}

Windows == {"5d"}

\* a record with the fields of `passed` only
Pick(full, passed) == [n \in passed |-> full[n]]

InstantVectorArgs ==
    { Pick([metric |-> m, params |-> p], passed) :
        m \in Metrics, p \in Selectors,
        passed \in { {"metric"}, {"metric", "params"} } }

RangeVectorArgs ==
    { Pick([metric |-> m, params |-> p, lookback_window |-> w], passed) :
        m \in Metrics, p \in Selectors, w \in Windows,
        passed \in { {"metric", "params"}, {"metric", "params", "lookback_window"} } }

\* what a caller hands over as `vector`: any object it has constructed
Vectors == 1..Len(heap)

Quantiles == { PyFloat(-1), PyInt(0), PyFloat(5), PyInt(1), PyInt(2) }

RateFunctions == {"rate", "irate", "hello"}

RateArgs ==
    { Pick([vector |-> v, rate_function |-> f], passed) :
        v \in Vectors, f \in RateFunctions,
        passed \in { {"vector"}, {"vector", "rate_function"} } }

Operators == {"sum", "invalid"}

LabelLists == { <<>>, <<"hi", "hello">> }

Groupings ==
    { Pick([by |-> b, without |-> w], passed) :
        b \in LabelLists, w \in LabelLists, passed \in SUBSET {"by", "without"} }

\* both lists are passed and neither is empty
BothPassedNonEmpty(g) == DOMAIN g = {"by", "without"} /\ Len(g.by) > 0 /\ Len(g.without) > 0

\* the grouping tried with Count, Max, Min and Avg, which share Sum's code
FewGroupings == { g \in Groupings : DOMAIN g = {"by"} /\ Len(g.by) > 0 }

Init ==
    /\ heap = <<>>
    /\ last = NoCall
    /\ pc = "building"

Next ==
    \/ \E args \in InstantVectorArgs : NewInstantVector(args)
    \/ \E args \in RangeVectorArgs : NewRangeVector(args)
    \/ \E q \in Quantiles, v \in Vectors :
            NewHistogramQuantile([quantile |-> q, vector |-> v])
    \/ \E args \in RateArgs : NewRate(args)
    \/ \E v \in Vectors : NewIncrease([vector |-> v])
    \/ \E v \in Vectors : NewDelta([vector |-> v])
    \/ \E v \in Vectors : NewScalar([vector |-> v])
    \/ \E o \in Operators, v \in Vectors, g \in Groupings :
            NewAggregation([operator |-> o, vector |-> v, groups |-> g])
    \/ \E v \in Vectors, g \in FewGroupings : NewCount([vector |-> v, groups |-> g])
    \/ \E v \in Vectors, g \in Groupings : NewSum([vector |-> v, groups |-> g])
    \/ \E v \in Vectors, g \in FewGroupings : NewMax([vector |-> v, groups |-> g])
    \/ \E v \in Vectors, g \in FewGroupings : NewMin([vector |-> v, groups |-> g])
    \/ \E v \in Vectors, g \in FewGroupings : NewAvg([vector |-> v, groups |-> g])
    \/ \E self \in 1..Len(heap) : Str(self)

Spec == Init /\ [][Next]_vars

(***************************************************************************)
(* The vector classes alone, over wider inputs: selectors as format_params *)
(* returns them and windows that are no durations.                         *)
(***************************************************************************)
LeafMetrics == {"test_total"}

LeafSelectors == {"{}", "{a=\"b\"}"}

LeafWindows == {"", "1 h"}

LeafInstantVectorArgs ==
    { Pick([metric |-> m, params |-> p], passed) :
        m \in LeafMetrics, p \in LeafSelectors,
        passed \in { {"metric"}, {"metric", "params"} } }

LeafRangeVectorArgs ==
    { Pick([metric |-> m, params |-> p, lookback_window |-> w], passed) :
        m \in LeafMetrics, p \in LeafSelectors, w \in LeafWindows,
        passed \in { {"metric"}, {"metric", "params"},
                     {"metric", "params", "lookback_window"} } }

LeafNext ==
    \/ \E args \in LeafInstantVectorArgs : NewInstantVector(args)
    \/ \E args \in LeafRangeVectorArgs : NewRangeVector(args)
    \/ \E self \in 1..Len(heap) : Str(self)

SpecLeaf == Init /\ [][LeafNext]_vars

(***************************************************************************)
(* Every constructor and str over few arguments each: one of each vector   *)
(* class, one accepted and one rejected scalar per wrapper.  The frame     *)
(* properties, which compare every object before and after every call, are *)
(* checked here.                                                           *)
(***************************************************************************)
FrameGroupings == FewGroupings \cup { g \in Groupings : BothPassedNonEmpty(g) }

FrameNext ==
    \/ \E m \in Metrics : NewInstantVector([metric |-> m])
    \/ \E m \in Metrics, p \in Selectors : NewRangeVector([metric |-> m, params |-> p])
    \/ \E q \in {PyFloat(5), PyInt(2)}, v \in Vectors :
            NewHistogramQuantile([quantile |-> q, vector |-> v])
    \/ \E f \in {"irate", "hello"}, v \in Vectors :
            NewRate([vector |-> v, rate_function |-> f])
    \/ \E v \in Vectors : NewIncrease([vector |-> v])
    \/ \E v \in Vectors : NewDelta([vector |-> v])
    \/ \E v \in Vectors : NewScalar([vector |-> v])
    \/ \E o \in Operators, v \in Vectors, g \in FewGroupings :
            NewAggregation([operator |-> o, vector |-> v, groups |-> g])
    \/ \E v \in Vectors, g \in FewGroupings : NewCount([vector |-> v, groups |-> g])
    \/ \E v \in Vectors, g \in FrameGroupings : NewSum([vector |-> v, groups |-> g])
    \/ \E v \in Vectors, g \in FewGroupings : NewMax([vector |-> v, groups |-> g])
    \/ \E v \in Vectors, g \in FewGroupings : NewMin([vector |-> v, groups |-> g])
    \/ \E v \in Vectors, g \in FewGroupings : NewAvg([vector |-> v, groups |-> g])
    \/ \E self \in 1..Len(heap) : Str(self)

SpecFrame == Init /\ [][FrameNext]_vars

(***************************************************************************)
(* Vocabulary of the properties.                                           *)
(***************************************************************************)
\* the last call was `op` and has completed
Called(op) == last.op = op /\ last.kind \notin {"none", "pending"}

RaisedWith(exception, msg) == last.kind = exception /\ last.msg = msg

\* the class of the object a reference names
ClassOf(vector) == heap[vector].cls

\* the classes whose objects are instant vectors, by the data model
InstantVectorCapable == {"InstantVector"} \cup FunctionClasses \cup AggregationClasses

\* sub occurs in s
Contains(s, sub) ==
    \E i \in 1..(Len(s) - Len(sub) + 1) : SubSeq(s, i, i + Len(sub) - 1) = sub

\* the two constraints the default behaviour is to add
DefaultClauses == <<"kubernetes_cluster=\"$cluster\"", "kubernetes_namespace=\"$namespace\"">>

\* the clause of label k with value v, case by case on the prefix of v
ClauseByPrefix(k, v) ==
    CASE StartsWith(v, "!~") -> k \o "!~" \o "\"" \o SliceFrom(v, 2) \o "\""
      [] StartsWith(v, "~") -> k \o "=~" \o "\"" \o SliceFrom(v, 1) \o "\""
      [] StartsWith(v, "!") /\ ~StartsWith(v, "!~") ->
            k \o "!=" \o "\"" \o SliceFrom(v, 1) \o "\""
      [] OTHER -> k \o "=" \o "\"" \o v \o "\""

ClausesByPrefix(params) ==
    [i \in 1..Len(params) |-> ClauseByPrefix(params[i][1], params[i][2])]

(***************************************************************************)
(* C1 - format_params called without an opt-out returns the clauses of     *)
(* the supplied labels, in input order, followed by the two constraints    *)
(* kubernetes_cluster="$cluster" and kubernetes_namespace="$namespace".    *)
(* The code never adds them: format_params({}) is "{}".                    *)
(***************************************************************************)
C1_DefaultLabelsInjected ==
    (Called("format_params") /\ last.args.keywords = {}) =>
        /\ last.kind = "ok"
        /\ last.value =
             "{" \o Join(", ", ClausesByPrefix(last.args.params) \o DefaultClauses) \o "}"

(***************************************************************************)
(* C2 - format_params called with exclude_default=True is accepted and     *)
(* returns "{" + the clauses of the supplied labels joined by ", " + "}".  *)
(* The code has no such parameter: the call raises TypeError.              *)
(***************************************************************************)
C2_ExcludeDefaultAccepted ==
    (Called("format_params") /\ "exclude_default" \in last.args.keywords) =>
        /\ last.kind = "ok"
        /\ last.value = "{" \o Join(", ", ClausesByPrefix(last.args.params)) \o "}"

(***************************************************************************)
(* C3 - every label of the mapping yields exactly one clause, chosen by    *)
(* the prefix of its value: ~r gives k=~"r", !~r gives k!~"r", !r gives    *)
(* k!="r", anything else k="v"; only the prefix is removed, the rest is    *)
(* copied without escaping.                                                *)
(***************************************************************************)
C3_ClauseByPrefix ==
    (Called("format_params") /\ last.kind = "ok") =>
        /\ Len(expression_list(last.args.params)) = Len(last.args.params)
        /\ last.value = "{" \o Join(", ", ClausesByPrefix(last.args.params)) \o "}"

C3_Witness ==
    /\ Called("format_params")
    /\ last.args.params = << <<"a", "!~b">>, <<"c", "!">> >>
    /\ last.value = "{a!~\"b\", c!=\"\"}"

(***************************************************************************)
(* C4 - Rate, Increase and Delta raise TypeError "invalid vector type" for *)
(* every input that is not a RangeVector (an InstantVector, a function     *)
(* wrapper, an aggregation); with a RangeVector (and, for Rate, a valid    *)
(* function name) the object is constructed around that input.             *)
(***************************************************************************)
C4_RangeVectorOnly ==
    \A op \in {"Rate", "Increase", "Delta"} :
        Called(op) =>
            LET v == last.args.vector
                validName == op = "Rate" =>
                    Arg(last.args, "rate_function", "rate") \in {"rate", "irate"}
            IN  /\ ClassOf(v) # "RangeVector" =>
                        RaisedWith("TypeError", "invalid vector type")
                /\ (ClassOf(v) = "RangeVector" /\ validName) =>
                        /\ last.kind = "ok"
                        /\ heap[last.ref].cls = op
                        /\ heap[last.ref].vector = v

C4_Witness ==
    /\ Called("Delta")
    /\ ClassOf(last.args.vector) \in AggregationClasses
    /\ RaisedWith("TypeError", "invalid vector type")

(***************************************************************************)
(* C5 - Scalar, HistogramQuantile (with a valid quantile) and every        *)
(* aggregation raise TypeError "invalid vector type" for a RangeVector.    *)
(***************************************************************************)
C5_RangeVectorRejected ==
    \A op \in {"Scalar", "HistogramQuantile"} \cup AggregationClasses :
        (/\ Called(op)
         /\ ClassOf(last.args.vector) = "RangeVector"
         /\ op = "HistogramQuantile" =>
                (last.args.quantile.tenths >= 0 /\ last.args.quantile.tenths <= 10))
        => RaisedWith("TypeError", "invalid vector type")

C5_Witness ==
    /\ Called("HistogramQuantile")
    /\ last.args.quantile = PyFloat(5)
    /\ ClassOf(last.args.vector) = "RangeVector"
    /\ RaisedWith("TypeError", "invalid vector type")

(***************************************************************************)
(* C6 - with an InstantVector-capable vector, HistogramQuantile is         *)
(* constructed exactly when 0 <= quantile <= 1 (0 and 1 included) and      *)
(* otherwise raises ValueError "quantile should be between 0 and 1".       *)
(***************************************************************************)
C6_QuantileClosedInterval ==
    (Called("HistogramQuantile") /\ ClassOf(last.args.vector) \in InstantVectorCapable) =>
        LET q == last.args.quantile
            inside == 0 <= q.tenths /\ q.tenths <= 10
        IN  /\ last.kind = "ok" <=> inside
            /\ ~inside => RaisedWith("ValueError", "quantile should be between 0 and 1")
            /\ inside => heap[last.ref].quantile = q

C6_Witness ==
    /\ Called("HistogramQuantile")
    /\ last.args.quantile = PyInt(1)
    /\ last.kind = "ok"
    /\ heap[last.ref].cls = "HistogramQuantile"

(***************************************************************************)
(* C7 - with a RangeVector input, Rate is constructed exactly when the     *)
(* function name is rate or irate (rate when omitted) and otherwise raises *)
(* ValueError "Rate function should be one of: ['rate', 'irate']"; every   *)
(* Rate object has its function name in {rate, irate}.                     *)
(***************************************************************************)
C7_RateFunction ==
    /\ \A i \in 1..Len(heap) :
            heap[i].cls = "Rate" => heap[i].rate_function \in {"rate", "irate"}
    /\ (Called("Rate") /\ ClassOf(last.args.vector) = "RangeVector") =>
            LET valid == "rate_function" \in DOMAIN last.args =>
                            last.args.rate_function \in {"rate", "irate"}
            IN  /\ last.kind = "ok" <=> valid
                /\ ~valid => RaisedWith("ValueError",
                        "Rate function should be one of: ['rate', 'irate']")
                /\ (valid /\ "rate_function" \notin DOMAIN last.args) =>
                        heap[last.ref].rate_function = "rate"
                /\ (valid /\ "rate_function" \in DOMAIN last.args) =>
                        heap[last.ref].rate_function = last.args.rate_function

C7_Witness ==
    /\ Called("Rate")
    /\ ClassOf(last.args.vector) = "RangeVector"
    /\ "rate_function" \in DOMAIN last.args
    /\ last.args.rate_function = "hello"
    /\ RaisedWith("ValueError", "Rate function should be one of: ['rate', 'irate']")

(***************************************************************************)
(* C8 - an aggregation called with a non-empty by and a non-empty without  *)
(* raises ValueError "clause should be by or without, not both"; no        *)
(* aggregation object carries both a by and a without suffix.              *)
(***************************************************************************)
BothNonEmpty(groups) == Truthy(groups, "by") /\ Truthy(groups, "without")

NoObjectWithBothSuffixes ==
    \A i \in 1..Len(heap) :
        heap[i].cls \in AggregationClasses =>
            ~(Contains(heap[i].dimension, " by (") /\ Contains(heap[i].dimension, " without ("))

\* the claim as stated: for every vector argument
C8_BothAlwaysValueError ==
    /\ NoObjectWithBothSuffixes
    /\ \A op \in AggregationClasses :
            (Called(op) /\ BothNonEmpty(last.args.groups)) =>
                RaisedWith("ValueError", "clause should be by or without, not both")

\* as amended: the vector check comes first, so the ValueError is what an
\* InstantVector-capable vector gets; any other vector gets the TypeError
C8_BothRejected ==
    /\ NoObjectWithBothSuffixes
    /\ \A op \in AggregationClasses :
            (Called(op) /\ BothNonEmpty(last.args.groups)) =>
                IF ClassOf(last.args.vector) \in InstantVectorCapable
                THEN RaisedWith("ValueError", "clause should be by or without, not both")
                ELSE RaisedWith("TypeError", "invalid vector type")

C8_Witness ==
    /\ Called("Sum")
    /\ BothNonEmpty(last.args.groups)
    /\ ClassOf(last.args.vector) = "InstantVector"
    /\ RaisedWith("ValueError", "clause should be by or without, not both")

(***************************************************************************)
(* C9 - a constructed aggregation renders as <op>( + the rendering of its  *)
(* vector + ) and then " by (l1, l2)" when by is non-empty, " without (l1, *)
(* l2)" when without is non-empty, nothing otherwise; the labels keep      *)
(* their order and are joined by ", ".                                     *)
(***************************************************************************)
\* the operator tag a call asks for: the one passed to the generic
\* aggregation, the lower-case name of a named one
TagOf(call) ==
    IF call.op = "_Aggregation" THEN call.args.operator
    ELSE CHOOSE t \in {"count", "sum", "max", "min", "avg"} :
            \E first \in {"C", "S", "M", "A"} : call.op = first \o SliceFrom(t, 1)

SuffixOf(groups) ==
    IF Truthy(groups, "by") THEN " by (" \o Join(", ", groups.by) \o ")"
    ELSE IF Truthy(groups, "without") THEN " without (" \o Join(", ", groups.without) \o ")"
    ELSE ""

C9_AggregationRendering ==
    \A op \in AggregationClasses :
        (Called(op) /\ last.kind = "ok") =>
            str(last.ref) =
                TagOf(last) \o "(" \o str(last.args.vector) \o ")" \o SuffixOf(last.args.groups)

C9_Witness ==
    /\ Called("Sum")
    /\ last.kind = "ok"
    /\ last.args.groups = [by |-> <<"hi", "hello">>]
    /\ str(last.ref) = "sum(x{}) by (hi, hello)"

(***************************************************************************)
(* C10 - every aggregation object has its operator in {sum, min, max, avg, *)
(* count}: the generic aggregation raises ValueError "operator should be   *)
(* one of: ['sum', 'min', 'max', 'avg', 'count']" for any other tag, and   *)
(* Count, Sum, Max, Min, Avg fix the tag and never raise that error.       *)
(***************************************************************************)
OperatorError == "operator should be one of: ['sum', 'min', 'max', 'avg', 'count']"

OperatorTags == {"sum", "min", "max", "avg", "count"}

TagsInvariant ==
    /\ \A i \in 1..Len(heap) :
            heap[i].cls \in AggregationClasses => heap[i].operator \in OperatorTags
    /\ \A op \in NamedAggregations :
            Called(op) =>
                /\ last.msg # OperatorError
                /\ last.kind = "ok" => heap[last.ref].operator = TagOf(last)

\* the claim as stated: the operator error for every call with another tag
\* (looked at where by and without, when passed, are non-empty lists)
C10_OtherTagAlwaysOperatorError ==
    /\ TagsInvariant
    /\ (/\ Called("_Aggregation")
        /\ last.args.operator \notin OperatorTags
        /\ \A n \in DOMAIN last.args.groups : Len(last.args.groups[n]) > 0)
       => RaisedWith("ValueError", OperatorError)

\* as amended: the operator is checked last, so a call with another tag
\* always fails, and with the operator error when the vector is
\* InstantVector-capable and by and without are not both passed
C10_OperatorTags ==
    /\ TagsInvariant
    /\ (Called("_Aggregation") /\ last.args.operator \notin OperatorTags) =>
            /\ last.kind \in {"ValueError", "TypeError"}
            /\ (/\ ClassOf(last.args.vector) \in InstantVectorCapable
                /\ ~({"by", "without"} \subseteq DOMAIN last.args.groups))
               => RaisedWith("ValueError", OperatorError)

C10_Witness ==
    /\ Called("_Aggregation")
    /\ last.args.operator = "invalid"
    /\ RaisedWith("ValueError", OperatorError)

(***************************************************************************)
(* C11 - InstantVector(metric, selector) renders as metric + selector and  *)
(* RangeVector(metric, selector, window) as metric + selector + "[" +      *)
(* window + "]", the window being "2m" when omitted; neither constructor   *)
(* fails, and every field is emitted as given, in that order.              *)
(***************************************************************************)
C11_VectorRendering ==
    /\ Called("InstantVector") =>
            /\ last.kind = "ok"
            /\ str(last.ref) =
                 last.args.metric
                    \o (IF "params" \in DOMAIN last.args THEN last.args.params ELSE "")
    /\ Called("RangeVector") =>
            /\ last.kind = "ok"
            /\ str(last.ref) =
                 last.args.metric
                    \o (IF "params" \in DOMAIN last.args THEN last.args.params ELSE "")
                    \o "["
                    \o (IF "lookback_window" \in DOMAIN last.args
                        THEN last.args.lookback_window ELSE "2m")
                    \o "]"
    /\ (Called("str") /\ ClassOf(last.args.self) = "RangeVector") =>
            \E m \in LeafMetrics, p \in LeafSelectors \cup {""}, w \in LeafWindows \cup {"2m"} :
                last.value = m \o p \o "[" \o w \o "]"

C11_Witness ==
    /\ Called("str")
    /\ ClassOf(last.args.self) = "RangeVector"
    /\ heap[last.args.self].lookback_window = "1 h"
    /\ last.value = "test_total{a=\"b\"}[1 h]"

\* the classes that wrap a vector
WrapperClasses == FunctionClasses \cup AggregationClasses

\* the last call passed at most one of by and without
AtMostOnePassed == ~("by" \in DOMAIN last.args.groups /\ "without" \in DOMAIN last.args.groups)

\* the arguments of the last call other than its vector are acceptable
ScalarsValid ==
    CASE last.op = "HistogramQuantile" -> last.args.quantile.tenths \in 0..10
      [] last.op = "Rate" -> Arg(last.args, "rate_function", "rate") \in {"rate", "irate"}
      [] last.op = "_Aggregation" -> last.args.operator \in OperatorTags /\ AtMostOnePassed
      [] last.op \in NamedAggregations -> AtMostOnePassed
      [] OTHER -> TRUE

(***************************************************************************)
(* C12 - Every function wrapper and every aggregation that was constructed *)
(* is an InstantVector: Scalar, HistogramQuantile and every aggregation    *)
(* accept it as their vector (their other arguments being valid), and the  *)
(* node they return wraps it and is an InstantVector again, so the nesting *)
(* continues to any depth.                                                 *)
(***************************************************************************)
C12_WrappersNest ==
    /\ \A i \in 1..Len(heap) :
            heap[i].cls \in WrapperClasses => isinstance(i, "InstantVector")
    /\ \A op \in {"Scalar", "HistogramQuantile"} \cup AggregationClasses :
            (/\ Called(op)
             /\ ClassOf(last.args.vector) \in WrapperClasses
             /\ ScalarsValid)
                => /\ last.kind = "ok"
                   /\ heap[last.ref].cls = op
                   /\ heap[last.ref].vector = last.args.vector
                   /\ isinstance(last.ref, "InstantVector")

\* Sum(Rate(RangeVector)) was constructed
C12_Witness ==
    /\ Called("Sum")
    /\ last.kind = "ok"
    /\ ClassOf(last.args.vector) = "Rate"
    /\ ClassOf(heap[last.args.vector].vector) = "RangeVector"

\* a quantile of the accepted inputs, as Python prints it
QuantileText(q) ==
    CASE q = PyInt(0) -> "0"
      [] q = PyFloat(5) -> "0.5"
      [] q = PyInt(1) -> "1"

\* what precedes the rendering of the vector in the rendering of a function
\* node, by the node's fields
FunctionPrefix(o) ==
    CASE o.cls = "Rate" -> o.rate_function \o "("
      [] o.cls = "Increase" -> "increase("
      [] o.cls = "Delta" -> "delta("
      [] o.cls = "Scalar" -> "scalar("
      [] o.cls = "HistogramQuantile" ->
            "histogram_quantile(" \o QuantileText(o.quantile) \o ", "

(***************************************************************************)
(* C13 - A constructed function wrapper renders as the function's name,    *)
(* "(", the rendering of its vector and ")": the chosen rate or irate for  *)
(* Rate, increase, delta and scalar for Increase, Delta and Scalar, and    *)
(* "histogram_quantile(" + quantile + ", " + rendering + ")" for           *)
(* HistogramQuantile; this holds of every function node at every depth, so *)
(* a tree renders as the composition of the forms from the leaves up.      *)
(***************************************************************************)
C13_FunctionRendering ==
    /\ \A i \in 1..Len(heap) :
            heap[i].cls \in FunctionClasses =>
                str(i) = FunctionPrefix(heap[i]) \o str(heap[i].vector) \o ")"
    /\ (Called("Rate") /\ last.kind = "ok") =>
            str(last.ref) =
                (IF "rate_function" \in DOMAIN last.args
                 THEN last.args.rate_function ELSE "rate")
                    \o "(" \o str(last.args.vector) \o ")"
    /\ (Called("Increase") /\ last.kind = "ok") =>
            str(last.ref) = "increase(" \o str(last.args.vector) \o ")"
    /\ (Called("Delta") /\ last.kind = "ok") =>
            str(last.ref) = "delta(" \o str(last.args.vector) \o ")"
    /\ (Called("Scalar") /\ last.kind = "ok") =>
            str(last.ref) = "scalar(" \o str(last.args.vector) \o ")"
    /\ (Called("HistogramQuantile") /\ last.kind = "ok") =>
            str(last.ref) =
                "histogram_quantile(" \o QuantileText(last.args.quantile)
                    \o ", " \o str(last.args.vector) \o ")"

\* histogram_quantile over an irate over a range vector, rendered
C13_Witness ==
    /\ Called("str")
    /\ last.value = "histogram_quantile(0.5, irate(x{}[5d]))"

(***************************************************************************)
(* C14 - Rendering is deterministic: no call, be it a constructor call     *)
(* that returns or raises or the rendering of any node, changes what a     *)
(* node that exists renders to, so that a node rendered again after any    *)
(* number of calls gives the string it gave before; the string str returns *)
(* is that rendering; and two nodes that were built from equal arguments   *)
(* render to equal strings.                                                *)
(***************************************************************************)
C14_RenderingDeterministic ==
    [][ /\ \A i \in 1..Len(heap) : i \in 1..Len(heap') /\ str(i)' = str(i)
        /\ (last'.op = "str" /\ last' # last) => last'.value = str(last'.args.self)
        /\ Len(heap') > Len(heap) =>
                \A i \in 1..Len(heap), new \in {Len(heap) + 1} :
                    heap'[i] = heap'[new] => str(i)' = str(new)'
      ]_vars

\* two nodes built from equal arguments exist next to a third node, and one
\* of them has been rendered after the third was constructed
C14_Witness ==
    /\ Len(heap) >= 3
    /\ heap[1] = heap[2]
    /\ heap[3].cls = "Sum"
    /\ Called("str")
    /\ last.args.self = 1
    /\ last.value = str(2)

(***************************************************************************)
(* C15 - Nodes are immutable: every call (a constructor that returns or    *)
(* raises, the rendering of any node, the wrapping of a node by another)   *)
(* leaves every existing node in place with every field it had: metric,    *)
(* selector, window, wrapped vector, function name, quantile, operator and *)
(* grouping suffix.  The sub-nodes of a node are existing nodes, so they   *)
(* are covered.                                                            *)
(***************************************************************************)
C15_NodesImmutable ==
    [][ \A i \in 1..Len(heap) :
            /\ i \in 1..Len(heap')
            /\ DOMAIN heap'[i] = DOMAIN heap[i]
            /\ \A field \in DOMAIN heap[i] : heap'[i][field] = heap[i][field]
      ]_vars

\* a range vector has been wrapped in a rate, the rate in an aggregation, and
\* the range vector has been rendered since
C15_Witness ==
    /\ Len(heap) >= 3
    /\ heap[1].cls = "RangeVector"
    /\ heap[2].cls = "Rate" /\ heap[2].vector = 1
    /\ heap[3].cls \in AggregationClasses /\ heap[3].vector = 2
    /\ Called("str")
    /\ last.args.self = 1

\* the names the constructor calls are recorded under
Constructors == {"InstantVector", "RangeVector"} \cup WrapperClasses

(***************************************************************************)
(* C16 - Validation is eager: an exception comes from a constructor, never *)
(* from str; every object that was constructed, at whatever depth of       *)
(* nesting, carries every attribute its rendering reads, and every call    *)
(* of str returns a string.                                                *)
(***************************************************************************)
C16_ValidationEager ==
    /\ last.kind \notin {"ok", "none", "pending"} =>
            /\ last.op \in Constructors
            /\ last.kind \in {"ValueError", "TypeError"}
    /\ Called("str") => last.kind = "ok"
    /\ \A i \in 1..Len(heap) : Renderable(i)

\* a node two levels above its leaf, with an aggregation without grouping
\* below it, has been rendered
C16_Witness ==
    /\ Called("str")
    /\ last.kind = "ok"
    /\ heap[last.args.self].cls = "HistogramQuantile"
    /\ heap[heap[last.args.self].vector].cls = "Sum"
    /\ last.value = "histogram_quantile(0.5, sum(x{}))"

(***************************************************************************)
(* C17 - A constructor call that raises hands no object to its caller and  *)
(* changes nothing: the heap after the call is the heap before it, no      *)
(* partially initialised object included, so the vector that was passed    *)
(* and every other object are as they were and render as before.  (The by  *)
(* and without lists are read, never stored or assigned to.)               *)
(***************************************************************************)
C17_FailureLeavesNoTrace ==
    [][ (last'.op \in Constructors /\ last'.kind \notin {"ok", "none", "pending"}) =>
            /\ last'.ref = 0
            /\ Len(heap') = Len(heap)
            /\ heap' = heap
            /\ \A i \in 1..Len(heap) : Renderable(i)' /\ str(i)' = str(i)
      ]_vars

\* a constructor call was rejected with a range vector and its rate on the
\* heap, and the rate has been rendered since
C17_Witness ==
    /\ pc = "raised"
    /\ Len(heap) = 2
    /\ heap[2].cls = "Rate"
    /\ Called("str")
    /\ last.args.self = 2
    /\ last.value = "irate(x{}[2m])"

\* the vector of the last call is of the kind its constructor requires
VectorValid ==
    CASE last.op \in {"Rate", "Increase", "Delta"} ->
            ClassOf(last.args.vector) = "RangeVector"
      [] last.op \in {"Scalar", "HistogramQuantile"} \cup AggregationClasses ->
            ClassOf(last.args.vector) \in InstantVectorCapable
      [] OTHER -> TRUE

\* the constructor of the last call checks its scalars before its vector
ScalarsFirst == last.op = "HistogramQuantile"

\* the claim as stated: each cause decides the kind, whatever else is wrong
\* with the call
C18_EachCauseDecides ==
    \A op \in Constructors :
        Called(op) =>
            /\ last.kind \in {"ok", "ValueError", "TypeError"}
            /\ ~ScalarsValid => last.kind = "ValueError"
            /\ ~VectorValid => last.kind = "TypeError"

(***************************************************************************)
(* C18 - A constructor returns or raises ValueError or TypeError, nothing  *)
(* else.  A ValueError always has a scalar outside its domain as cause     *)
(* (quantile outside [0, 1], rate function or operator not in its list,    *)
(* both by and without passed) and a TypeError a vector of the wrong       *)
(* kind; a call with only a scalar at fault raises ValueError, a call with *)
(* only the vector at fault raises TypeError, a call with neither returns, *)
(* and in a call with both the check made first decides: ValueError for    *)
(* HistogramQuantile, TypeError for Rate and the aggregations.             *)
(***************************************************************************)
C18_ErrorKinds ==
    \A op \in Constructors :
        Called(op) =>
            /\ last.kind \in {"ok", "ValueError", "TypeError"}
            /\ last.kind = "ValueError" => ~ScalarsValid
            /\ last.kind = "TypeError" => ~VectorValid
            /\ (ScalarsValid /\ VectorValid) => last.kind = "ok"
            /\ (~ScalarsValid /\ VectorValid) => last.kind = "ValueError"
            /\ (ScalarsValid /\ ~VectorValid) => last.kind = "TypeError"
            /\ (~ScalarsValid /\ ~VectorValid) =>
                    last.kind = (IF ScalarsFirst THEN "ValueError" ELSE "TypeError")

\* a quantile above 1 with an instant vector: ValueError
C18_Witness ==
    /\ Called("HistogramQuantile")
    /\ last.args.quantile = PyInt(2)
    /\ ClassOf(last.args.vector) = "InstantVector"
    /\ last.kind = "ValueError"

(***************************************************************************)
(* C19 - With an InstantVector as vector (and, for _Aggregation, a valid   *)
(* operator) an aggregation is constructed whenever at most one of by and  *)
(* without is a non-empty list: with one empty list and one non-empty one  *)
(* it renders the suffix of the non-empty one, with two empty lists no     *)
(* suffix; "clause should be by or without, not both" is raised only when  *)
(* both lists are non-empty.                                               *)
(***************************************************************************)
C19_EmptyListsAccepted ==
    \A op \in AggregationClasses :
        (/\ Called(op)
         /\ ClassOf(last.args.vector) \in InstantVectorCapable
         /\ op = "_Aggregation" => last.args.operator \in OperatorTags)
        => /\ ~BothNonEmpty(last.args.groups) =>
                /\ last.kind = "ok"
                /\ heap[last.ref].dimension = SuffixOf(last.args.groups)
           /\ RaisedWith("ValueError", "clause should be by or without, not both") =>
                BothNonEmpty(last.args.groups)

\* the number of objects the rendering of a node visits
RECURSIVE Visits(_)
Visits(self) ==
    IF "vector" \in DOMAIN heap[self] THEN 1 + Visits(heap[self].vector) ELSE 1

\* the objects that wrap a given object
Parents(vector) ==
    { i \in 1..Len(heap) : "vector" \in DOMAIN heap[i] /\ heap[i].vector = vector }

(***************************************************************************)
(* C20 - Rendering terminates: the vector of every node is an object that  *)
(* was constructed before the node (no call rewrites it afterwards), so    *)
(* following the vectors from any node goes strictly down, visits at most  *)
(* as many objects as there were when the node was constructed, and ends   *)
(* in a leaf, also where several nodes wrap the same object; and every     *)
(* call of str has returned.                                               *)
(***************************************************************************)
C20_RenderingTerminates ==
    /\ \A i \in 1..Len(heap) :
            "vector" \in DOMAIN heap[i] => heap[i].vector \in 1..(i - 1)
    /\ \A i \in 1..Len(heap) : Visits(i) <= i
    /\ Called("str") => last.kind = "ok" /\ last.value = str(last.args.self)

\* an object wrapped by two nodes, one of which has been rendered
C20_Witness ==
    /\ \E v \in 1..Len(heap) :
            /\ \E i, j \in Parents(v) : i # j
            /\ Called("str")
            /\ last.args.self \in Parents(v)
    /\ last.kind = "ok"

(***************************************************************************)
(* C21 - A call that breaks several constraints reports the one checked    *)
(* first.  Rate with a vector that is no RangeVector and a function name   *)
(* outside the list raises TypeError "invalid vector type".                *)
(* HistogramQuantile with a quantile outside [0, 1] and a RangeVector      *)
(* raises ValueError "quantile should be between 0 and 1".  An aggregation *)
(* with a vector that is no InstantVector raises TypeError whatever its    *)
(* other arguments; with an InstantVector and both a by and a without list *)
(* it raises "clause should be by or without, not both", also when the     *)
(* operator is invalid; the operator error is raised when the vector is    *)
(* an InstantVector and at most one of by and without is passed.           *)
(***************************************************************************)
C21_FirstCheckReported ==
    /\ (/\ Called("Rate")
        /\ ClassOf(last.args.vector) # "RangeVector"
        /\ Arg(last.args, "rate_function", "rate") \notin {"rate", "irate"})
            => RaisedWith("TypeError", "invalid vector type")
    /\ (/\ Called("HistogramQuantile")
        /\ last.args.quantile.tenths \notin 0..10
        /\ ClassOf(last.args.vector) = "RangeVector")
            => RaisedWith("ValueError", "quantile should be between 0 and 1")
    /\ \A op \in AggregationClasses :
            Called(op) =>
                LET capable == ClassOf(last.args.vector) \in InstantVectorCapable
                    invalid == op = "_Aggregation" /\ last.args.operator \notin OperatorTags
                IN  /\ ~capable => RaisedWith("TypeError", "invalid vector type")
                    /\ (capable /\ BothNonEmpty(last.args.groups)) =>
                            RaisedWith("ValueError",
                                       "clause should be by or without, not both")
                    /\ (capable /\ AtMostOnePassed /\ invalid) =>
                            RaisedWith("ValueError", OperatorError)
                    /\ RaisedWith("ValueError", OperatorError) =>
                            capable /\ AtMostOnePassed /\ invalid

\* an invalid operator together with a by and a without list
C21_Witness ==
    /\ Called("_Aggregation")
    /\ last.args.operator = "invalid"
    /\ ClassOf(last.args.vector) = "InstantVector"
    /\ BothNonEmpty(last.args.groups)
    /\ RaisedWith("ValueError", "clause should be by or without, not both")

\* the classes whose constructor requires a RangeVector
RangeFunctions == {"Rate", "Increase", "Delta"}

(***************************************************************************)
(* C22 - In every expression built by constructor calls that returned: a   *)
(* RangeVector and an InstantVector have no input (they are leaves); a     *)
(* RangeVector is wrapped by Rate, Increase and Delta nodes only; the      *)
(* input of every Rate, Increase and Delta node is a RangeVector, so that  *)
(* none of the three wraps a function or aggregation node, and a call that *)
(* tries to (Rate(Rate(x)), Increase(Sum(x))) raises; and the input of     *)
(* every Scalar, HistogramQuantile and aggregation node is no RangeVector. *)
(***************************************************************************)
C22_Structure ==
    /\ \A i \in 1..Len(heap) :
            /\ heap[i].cls \in {"RangeVector", "InstantVector"} =>
                    "vector" \notin DOMAIN heap[i]
            /\ heap[i].cls = "RangeVector" =>
                    \A parent \in Parents(i) : heap[parent].cls \in RangeFunctions
            /\ heap[i].cls \in RangeFunctions =>
                    /\ heap[i].vector \in 1..Len(heap)
                    /\ heap[heap[i].vector].cls = "RangeVector"
            /\ heap[i].cls \in WrapperClasses \ RangeFunctions =>
                    /\ heap[i].vector \in 1..Len(heap)
                    /\ heap[heap[i].vector].cls # "RangeVector"
    /\ \A op \in RangeFunctions :
            (Called(op) /\ ClassOf(last.args.vector) \in WrapperClasses) =>
                /\ last.kind = "TypeError"
                /\ last.ref = 0

\* Rate over a rate over a range vector was tried
C22_Witness ==
    /\ Len(heap) = 2
    /\ heap[1].cls = "RangeVector"
    /\ heap[2].cls = "Rate" /\ heap[2].vector = 1
    /\ Called("Rate")
    /\ last.args.vector = 2
    /\ last.kind = "TypeError"

====
